---- MODULE Spec2Model ----
(***************************************************************************)
(* Model of the recursive inclusion resolver of tex2word                   *)
(* (src/convert-whole-document.py, create_combined_tex and its nested      *)
(* process_tex_recursively).                                               *)
(*                                                                         *)
(* Text is a sequence of tokens and an offset is a token index: a          *)
(* directive call \kind{arg}, a structural command (\documentclass, ...),  *)
(* a newline, a blank, a provenance comment and a run of ordinary text     *)
(* are one token each.  A file name is a sequence of name tokens           *)
(* ("b", " ", "/", ".tex"), a path is the sequence of its components from  *)
(* the root of the filesystem.                                             *)
(* The recursion of process_tex_recursively is an explicit call stack.     *)
(***************************************************************************)
EXTENDS Integers, Sequences, FiniteSets, TLC

VARIABLES
    files,             \* the filesystem: path -> [readable, text]
    pc,                \* position of create_combined_tex
    stack,             \* frames of process_tex_recursively, innermost last
    retval,            \* value returned by the call that returned last
    combined_content,  \* line 181
    diag,              \* the lines printed so far
    calls,             \* history: the calls that have returned
    lookups,           \* history: the directives looked up
    splices,           \* history: the splices made
    outs,              \* history: per run, the filesystem at its start and its result
    runs               \* number of runs of create_combined_tex started

vars == <<files, pc, stack, retval, combined_content, diag, calls, lookups,
          splices, outs, runs>>

(***************************************************************************)
(* Bounds                                                                  *)
(***************************************************************************)
MaxRuns == 2
MaxDepth == 8

(***************************************************************************)
(* Tokens of a text                                                        *)
(***************************************************************************)
Txt(id) == [k |-> "txt", a |-> id, b |-> <<>>]
NL == [k |-> "nl", a |-> "", b |-> <<>>]
SP == [k |-> "sp", a |-> "", b |-> <<>>]
Dir(kind, arg) == [k |-> "dir", a |-> kind, b |-> arg]
Cmd(c) == [k |-> "cmd", a |-> c, b |-> <<>>]
BeginInclude(filename) == [k |-> "begin-include", a |-> "", b |-> filename]
EndInclude(filename) == [k |-> "end-include", a |-> "", b |-> filename]

(***************************************************************************)
(* Sequence helpers (Python slicing clamps its indices)                    *)
(***************************************************************************)
Min(x, y) == IF x < y THEN x ELSE y
Max(x, y) == IF x > y THEN x ELSE y
Take(s, n) == SubSeq(s, 1, Min(Max(n, 0), Len(s)))
Drop(s, n) == SubSeq(s, Min(Max(n, 0), Len(s)) + 1, Len(s))
Reverse(s) == [i \in 1..Len(s) |-> s[Len(s) + 1 - i]]

\* F applied to the value of e, with e evaluated once
Let(e, F(_)) == CHOOSE r \in {F(v) : v \in {e}} : TRUE

(***************************************************************************)
(* File names and paths                                                    *)
(***************************************************************************)
IsSpace(t) == t = " "

RECURSIVE LStrip(_)
LStrip(s) == IF s # <<>> /\ IsSpace(Head(s)) THEN LStrip(Tail(s)) ELSE s

RECURSIVE RStrip(_)
RStrip(s) ==
    IF s # <<>> /\ IsSpace(s[Len(s)]) THEN RStrip(SubSeq(s, 1, Len(s) - 1)) ELSE s

\* str.strip() on a name
StripName(s) == Let(s, LAMBDA v : Let(LStrip(v), RStrip))

EndsWithTex(s) == Len(s) > 0 /\ s[Len(s)] = ".tex"

AppendTex(s) == s \o <<".tex">>

\* variant: the suffix is appended without looking for one
TargetFilenameAlwaysAppends(arg) == Let(StripName(arg), AppendTex)

\* lines 115-120: filename = match.group(1).strip(), '.tex' appended if absent
TargetFilename(arg) ==
    Let(StripName(arg),
        LAMBDA filename :
            IF ~EndsWithTex(filename) THEN AppendTex(filename) ELSE filename)

\* line 123: '/' in filename or '\\' in filename
HasSeparator(filename) ==
    \E i \in 1..Len(filename) : filename[i] \in {"/", "\\"}

\* the components of a name, split at either separator
RECURSIVE SplitName(_, _)
SplitName(s, cur) ==
    IF s = <<>> THEN <<cur>>
    ELSE IF Head(s) \in {"/", "\\"} THEN <<cur>> \o SplitName(Tail(s), <<>>)
    ELSE SplitName(Tail(s), Append(cur, Head(s)))

\* a name that starts with a separator is an absolute path
IsAbsolute(name) == name # <<>> /\ name[1] \in {"/", "\\"}

\* os.path.join(dir, name): an absolute name replaces dir
JoinPath(dir, name) ==
    Let(name, LAMBDA v : IF IsAbsolute(v) THEN SplitName(v, <<>>)
                         ELSE dir \o SplitName(v, <<>>))

\* os.path.normpath: empty components (doubled separators) disappear
NormPath(p) == SelectSeq(p, LAMBDA c : c # <<>>)

DirName(p) == SubSeq(p, 1, Len(p) - 1)

IsFile(fs, p) == p \in DOMAIN fs

\* a directory is there when a file lies below it
IsDirectory(fs, p) ==
    \E q \in DOMAIN fs : Len(q) > Len(p) /\ SubSeq(q, 1, Len(p)) = p

\* os.path.exists
PathExists(fs, p) == IsFile(fs, p) \/ IsDirectory(fs, p)

folder_path == << <<"proj">> >>
main_tex_file == <<"main", ".tex">>
main_path == JoinPath(folder_path, main_tex_file)
combined_path == JoinPath(folder_path, <<"combined_document", ".tex">>)

\* variant: the base folder is tried before the fragment's own directory
IncludedPathBaseFirst(fs, tex_file_path, base_folder, filename) ==
    IF HasSeparator(filename)
    THEN NormPath(JoinPath(base_folder, filename))
    ELSE Let(JoinPath(base_folder, filename),
             LAMBDA there :
                 IF ~PathExists(fs, there)
                 THEN NormPath(JoinPath(DirName(tex_file_path), filename))
                 ELSE NormPath(there))

\* lines 122-136: the path a directive's file name is looked up at
IncludedPath(fs, tex_file_path, base_folder, filename) ==
    IF HasSeparator(filename)
    THEN NormPath(JoinPath(base_folder, filename))
    ELSE Let(JoinPath(DirName(tex_file_path), filename),
             LAMBDA here :
                 IF ~PathExists(fs, here)
                 THEN NormPath(JoinPath(base_folder, filename))
                 ELSE NormPath(here))

(***************************************************************************)
(* Text operations                                                         *)
(***************************************************************************)
\* lines 101-106
patterns == <<"input", "include", "subfile", "InputIfFileExists">>

\* line 111: re.finditer(pattern, content), as ascending token positions
RECURSIVE MatchesFrom(_, _, _)
MatchesFrom(content, kind, i) ==
    IF i > Len(content) THEN <<>>
    ELSE IF content[i].k = "dir" /\ content[i].a = kind /\ content[i].b # <<>>
         THEN <<i>> \o MatchesFrom(content, kind, i + 1)
         ELSE MatchesFrom(content, kind, i + 1)

Matches(content, kind) == MatchesFrom(content, kind, 1)

\* lines 110-114: the order in which the matches of a fragment are visited:
\* pattern by pattern, each pattern's matches rightmost first
RECURSIVE WorkListFrom(_, _)
WorkListFrom(content, n) ==
    IF n > Len(patterns) THEN <<>>
    ELSE Reverse(Matches(content, patterns[n])) \o WorkListFrom(content, n + 1)

WorkList(content) == WorkListFrom(content, 1)

\* index of the first newline of s at position i or later, 0 if none
RECURSIVE NextNewline(_, _)
NextNewline(s, i) ==
    IF i > Len(s) THEN 0
    ELSE IF s[i].k = "nl" THEN i ELSE NextNewline(s, i + 1)

\* re.sub(r'\\c.*?\n', '', s)
RECURSIVE StripCommandFrom(_, _, _)
StripCommandFrom(s, c, i) ==
    IF i > Len(s) THEN <<>>
    ELSE IF s[i] = Cmd(c) /\ NextNewline(s, i + 1) # 0
         THEN StripCommandFrom(s, c, NextNewline(s, i + 1) + 1)
         ELSE <<s[i]>> \o StripCommandFrom(s, c, i + 1)

StripCommand(s, c) == Let(s, LAMBDA v : StripCommandFrom(v, c, 1))

\* lines 147-152, in this order
structural == <<"documentclass", "usepackage", "begin{document}",
                "end{document}", "maketitle", "tableofcontents">>

RECURSIVE StripStructureFrom(_, _)
StripStructureFrom(s, n) ==
    IF n > Len(structural) THEN s
    ELSE StripStructureFrom(StripCommand(s, structural[n]), n + 1)

StripStructure(s) == StripStructureFrom(s, 1)

IsBlank(t) == t.k \in {"nl", "sp"}

RECURSIVE LStripText(_)
LStripText(s) ==
    IF s # <<>> /\ IsBlank(Head(s)) THEN LStripText(Tail(s)) ELSE s

RECURSIVE RStripText(_)
RStripText(s) ==
    IF s # <<>> /\ IsBlank(s[Len(s)])
    THEN RStripText(SubSeq(s, 1, Len(s) - 1)) ELSE s

\* line 155: str.strip() on a text
StripText(s) == Let(s, LAMBDA v : Let(LStripText(v), RStripText))

\* line 157
Wrap(filename, s) ==
    <<NL, BeginInclude(filename), NL>> \o s \o <<NL, EndInclude(filename), NL>>

\* lines 146-157: what is spliced for a directive whose target exists
Expansion(included_path, filename, included_content) ==
    IF included_path # main_path
    THEN Let(StripText(StripStructure(included_content)),
             LAMBDA cleaned :
                 IF cleaned # <<>> THEN Wrap(filename, cleaned) ELSE cleaned)
    ELSE included_content

\* lines 160-164: result_content[:start_pos] + included + result_content[end_pos:]
Splice(result_content, start_pos, end_pos, included_content) ==
    Take(result_content, start_pos) \o included_content
        \o Drop(result_content, end_pos)

\* re.Match.start() and .end() of the directive at token position i
MatchStart(i) == i - 1
MatchEnd(i) == i

(***************************************************************************)
(* Frames of process_tex_recursively                                       *)
(***************************************************************************)
\* line 82 and 142: a call, with the visited set handed to it
Frame(tex_file_path, processed_files) ==
    [tex_file_path   |-> tex_file_path,
     processed_files |-> processed_files,
     st              |-> "entry",
     content         |-> <<>>,
     result_content  |-> <<>>,
     todo            |-> <<>>,     \* matches still to visit, in visiting order
     filename        |-> <<>>,     \* of the match being expanded
     included_path   |-> <<>>,     \* of the match being expanded
     given           |-> processed_files,  \* history: the set as handed in
     handled         |-> <<>>,     \* history: the matches visited so far
     intended        |-> <<>>]     \* history: per token of content, what
                                   \* stands for it once its directive is expanded

Top == stack[Len(stack)]
Running == pc = "resolving" /\ stack # <<>>

\* variant: no copy is made, one set is shared by all the calls of a run and
\* holds every path a call of the run has added so far
CopyOfShared(processed_files) ==
    processed_files \cup {c.path : c \in {d \in calls : d.run = runs}}

\* line 142: the visited set handed to a recursive call
CopyOf(processed_files) == processed_files

\* variant: the default visited set is one object shared by all calls
FreshSetLeftOver == {c.path : c \in calls}

\* line 84-85: the visited set of a call made without one
FreshSet == {}

\* variant: the guard never fires
AlreadyProcessedNever(abs_path, processed_files) == FALSE

\* lines 88-89
AlreadyProcessed(abs_path, processed_files) == abs_path \in processed_files

\* lines 93-95: open() and read() succeed
CanRead(fs, tex_file_path) == IsFile(fs, tex_file_path) /\ fs[tex_file_path].readable

\* lines 171-173: os.listdir raises when the place searched is a file
ListingFails(fs, included_path) == IsFile(fs, DirName(included_path))

\* variant: the file is opened for writing, which empties it
OpenForWriting(fs, tex_file_path) ==
    [fs EXCEPT ![tex_file_path] = [readable |-> TRUE, text |-> <<>>]]

\* line 94: open(tex_file_path, 'r') leaves the filesystem as it is
OpenForReading(fs, tex_file_path) == fs

RECURSIVE Flatten(_)
Flatten(ss) == IF ss = <<>> THEN <<>> ELSE Head(ss) \o Flatten(Tail(ss))

\* how is "cycle" (line 90), "unreadable" (line 98) or "done" (line 177)
CallRecord(f, how, ret) ==
    [run      |-> runs,
     depth    |-> Len(stack),
     path     |-> f.tex_file_path,
     given    |-> f.given,
     how      |-> how,
     opened   |-> how # "cycle",
     content  |-> f.content,
     handled  |-> f.handled,
     intended |-> Flatten(f.intended),
     ret      |-> ret]

\* lines 115-138: the file name and path of a directive, and whether it exists
LookupRecord(fs, tex_file_path, arg) ==
    Let(TargetFilename(arg),
        LAMBDA filename :
            Let(IncludedPath(fs, tex_file_path, folder_path, filename),
                LAMBDA included_path :
                    [owner |-> tex_file_path, arg |-> arg, filename |-> filename,
                     included_path |-> included_path,
                     found |-> PathExists(fs, included_path)]))

\* lines 114-138 for the match that is visited next
NextLookup ==
    LookupRecord(files, Top.tex_file_path, Top.content[Head(Top.todo)].b)

\* lines 144-157 for the call that has just returned
IncludedContent == Expansion(Top.included_path, Top.filename, retval)

\* a return of the innermost call; the outermost one returns to line 181
ReturnValue(ret) ==
    /\ stack' = SubSeq(stack, 1, Len(stack) - 1)
    /\ retval' = ret
    /\ IF Len(stack) = 1
       THEN /\ pc' = "returned"
            /\ combined_content' = ret
            /\ outs' = [outs EXCEPT ![Len(outs)] = [fs |-> @.fs, fin |-> TRUE, out |-> ret]]
       ELSE UNCHANGED <<pc, combined_content, outs>>

(***************************************************************************)
(* The filesystems a run starts from: the root fragment main.tex and the   *)
(* fragments a.tex, b.tex, sec/s.tex and sec/b.tex, each absent or with    *)
(* one of a few texts.  Ordinary text is tagged with the fragment it is in.*)
(***************************************************************************)
path_a == JoinPath(folder_path, <<"a", ".tex">>)
path_b == JoinPath(folder_path, <<"b", ".tex">>)
path_s == JoinPath(folder_path, <<"sec", "/", "s", ".tex">>)
path_sb == JoinPath(folder_path, <<"sec", "/", "b", ".tex">>)

File(text) == [readable |-> TRUE, text |-> text]
Unreadable(text) == [readable |-> FALSE, text |-> text]
Absent == [readable |-> FALSE, text |-> <<Txt("absent")>>]

RootFiles ==
    { File(<<Cmd("documentclass"), NL, Cmd("begin{document}"), NL,
             Dir("input", <<"a">>), NL, Dir("input", <<"b">>), NL,
             Cmd("end{document}"), NL>>),
      File(<<Dir("input", <<"a">>), Txt("main"), Dir("include", <<"b">>)>>),
      File(<<Dir("include", <<"b">>), Txt("main"), Dir("input", <<"a", ".tex">>)>>),
      File(<<Dir("subfile", <<"sec", "/", "s">>), NL, Dir("subfile", <<"m">>),
             Txt("main"), Dir("input", <<"a">>)>>),
      File(<<Dir("input", <<"a", ".tex", "/", "x">>), Txt("main"),
             Dir("input", <<"b">>)>>),
      File(<<Dir("input", <<"b">>), Txt("main"), SP, Dir("include", <<"a">>),
             Dir("subfile", <<"m">>)>>),
      File(<<Txt("main"), NL>>),
      Unreadable(<<Txt("main"), Dir("input", <<"a">>)>>) }

FilesA ==
    { Absent,
      Unreadable(<<Txt("a"), NL>>),
      File(<<Txt("a"), NL>>),
      File(<<Txt("a"), Dir("input", <<"b">>), NL>>),
      File(<<Dir("include", <<"a">>), Txt("a"), Dir("input", <<"main">>)>>),
      File(<<Cmd("documentclass"), Txt("options"), NL, Cmd("begin{document}"), NL,
             Cmd("maketitle"), SP, Dir("input", <<"zz">>), NL,
             Txt("a"), NL, Cmd("end{document}"), NL>>) }

FilesB ==
    { Absent,
      File(<<Txt("b"), NL>>),
      File(<<Dir("input", <<"a">>), Txt("b")>>),
      File(<<Cmd("usepackage"), NL, Txt("b"), NL, Cmd("end{document}")>>),
      File(<<NL, SP>>),
      File(<<Dir("include", <<"sec", "/", "s">>), Txt("b")>>) }

FilesS ==
    { Absent,
      File(<<Dir("input", <<"b">>), NL, Txt("s")>>),
      File(<<Txt("s"), Dir("input", <<"a">>), Dir("input", <<"sec", "\\", "b">>)>>) }

FilesSB ==
    { Absent,
      File(<<Txt("sb"), NL>>) }

FileSystem(m, a, b, s, sb) ==
    LET all == (path_a :> a) @@ (path_b :> b) @@ (path_s :> s) @@ (path_sb :> sb)
        present == {p \in DOMAIN all : all[p] # Absent}
    IN  [p \in present \cup {main_path} |-> IF p = main_path THEN m ELSE all[p]]

FileSystems ==
    { FileSystem(m, a, b, s, sb) :
        m \in RootFiles, a \in FilesA, b \in FilesB, s \in FilesS, sb \in FilesSB }

Init ==
    /\ files \in FileSystems
    /\ pc = "idle"
    /\ stack = <<>>
    /\ retval = <<>>
    /\ combined_content = <<>>
    /\ diag = <<>>
    /\ calls = {}
    /\ lookups = {}
    /\ splices = {}
    /\ outs = <<>>
    /\ runs = 0

(***************************************************************************)
(* Actions                                                                 *)
(***************************************************************************)
\* lines 74-81 and the call of line 181
Start ==
    /\ pc \in {"idle", "done", "failed"}
    /\ runs < MaxRuns
    /\ pc' = "resolving"
    /\ runs' = runs + 1
    /\ stack' = <<Frame(main_path, FreshSet)>>
    /\ diag' = Append(diag, [msg |-> "creating", name |-> main_tex_file, at |-> <<>>])
    /\ outs' = Append(outs, [fs |-> files, fin |-> FALSE, out |-> <<>>])
    /\ UNCHANGED <<files, retval, combined_content, calls, lookups, splices>>

\* lines 88-90: the path is in the visited set
CycleGuard ==
    /\ Running /\ Top.st = "entry"
    /\ AlreadyProcessed(Top.tex_file_path, Top.processed_files)
    /\ calls' = calls \cup {CallRecord(Top, "cycle", <<>>)}
    /\ ReturnValue(<<>>)
    /\ UNCHANGED <<files, diag, lookups, splices, runs>>

\* variant: the failure of open() is not caught and ends create_combined_tex
ReadFailRaises ==
    /\ Running /\ Top.st = "entry"
    /\ ~AlreadyProcessed(Top.tex_file_path, Top.processed_files)
    /\ ~CanRead(files, Top.tex_file_path)
    /\ diag' = Append(diag, [msg |-> "error-creating", name |-> <<>>,
                             at |-> Top.tex_file_path])
    /\ stack' = <<>>
    /\ pc' = "failed"
    /\ UNCHANGED <<files, retval, combined_content, calls, lookups, splices,
                   outs, runs>>

\* lines 91-98: the file cannot be read
ReadFail ==
    /\ Running /\ Top.st = "entry"
    /\ ~AlreadyProcessed(Top.tex_file_path, Top.processed_files)
    /\ ~CanRead(files, Top.tex_file_path)
    /\ diag' = Append(diag, [msg |-> "could-not-read", name |-> <<>>,
                             at |-> Top.tex_file_path])
    /\ calls' = calls \cup {CallRecord(Top, "unreadable", <<>>)}
    /\ ReturnValue(<<>>)
    /\ UNCHANGED <<files, lookups, splices, runs>>

\* lines 91-95 and 108-111: the file is read and its matches are collected
ReadFragment ==
    /\ Running /\ Top.st = "entry"
    /\ ~AlreadyProcessed(Top.tex_file_path, Top.processed_files)
    /\ CanRead(files, Top.tex_file_path)
    /\ LET content == files[Top.tex_file_path].text
       IN  stack' = [stack EXCEPT ![Len(stack)] =
               [@ EXCEPT !.processed_files = @ \cup {Top.tex_file_path},
                         !.st = "loop",
                         !.content = content,
                         !.result_content = content,
                         !.todo = WorkList(content),
                         !.intended = [i \in 1..Len(content) |-> <<content[i]>>]]]
    /\ files' = OpenForReading(files, Top.tex_file_path)
    /\ UNCHANGED <<pc, retval, combined_content, diag, calls, lookups,
                   splices, outs, runs>>

\* lines 114-142: the next match names a file that exists; recurse into it
IncludeFound ==
    /\ Running /\ Top.st = "loop" /\ Top.todo # <<>>
    /\ Len(stack) < MaxDepth
    /\ \E l \in {NextLookup} :
          /\ l.found
          /\ diag' = Append(diag, [msg |-> "processing", name |-> l.filename,
                                   at |-> l.included_path])
          /\ lookups' = lookups \cup {l}
          /\ stack' = Append([stack EXCEPT ![Len(stack)] =
                                 [@ EXCEPT !.st = "wait",
                                           !.filename = l.filename,
                                           !.included_path = l.included_path]],
                             Frame(l.included_path, CopyOf(Top.processed_files)))
    /\ UNCHANGED <<files, pc, retval, combined_content, calls, splices, outs, runs>>

\* lines 114-138 and 166-175: the next match names a file that does not exist
IncludeMissing ==
    /\ Running /\ Top.st = "loop" /\ Top.todo # <<>>
    /\ \E l \in {NextLookup} :
          /\ ~l.found
          /\ ~ListingFails(files, l.included_path)
          /\ diag' = Append(diag, [msg |-> "not-found", name |-> l.filename,
                                   at |-> l.included_path])
          /\ lookups' = lookups \cup {l}
          /\ stack' = [stack EXCEPT ![Len(stack)] =
                         [@ EXCEPT !.todo = Tail(@),
                                   !.handled = Append(@, Head(Top.todo))]]
    /\ UNCHANGED <<files, pc, retval, combined_content, calls, splices, outs, runs>>

\* lines 166-173 and 190-192: the file does not exist and the place searched is
\* itself a file; os.listdir raises, no call catches it, create_combined_tex
\* reports it and returns None
IncludeMissingListingFails ==
    /\ Running /\ Top.st = "loop" /\ Top.todo # <<>>
    /\ \E l \in {NextLookup} :
          /\ ~l.found
          /\ ListingFails(files, l.included_path)
          /\ diag' = diag \o
                 <<[msg |-> "not-found", name |-> l.filename, at |-> l.included_path],
                   [msg |-> "error-creating", name |-> <<>>,
                    at |-> DirName(l.included_path)]>>
          /\ lookups' = lookups \cup {l}
    /\ stack' = <<>>
    /\ pc' = "failed"
    /\ UNCHANGED <<files, retval, combined_content, calls, splices, outs, runs>>

\* lines 144-164: the recursive call has returned; clean, wrap and splice
SpliceIncluded ==
    /\ Running /\ Top.st = "wait"
    /\ \E pos \in {Head(Top.todo)}, included_content \in {IncludedContent} :
          /\ stack' = [stack EXCEPT ![Len(stack)] =
                 [@ EXCEPT !.st = "loop",
                           !.todo = Tail(@),
                           !.handled = Append(@, pos),
                           !.result_content =
                               Splice(@, MatchStart(pos), MatchEnd(pos), included_content),
                           !.intended = [@ EXCEPT ![pos] = included_content]]]
          /\ splices' = splices \cup
                 {[owner |-> Top.tex_file_path, pos |-> pos,
                   target |-> Top.included_path, filename |-> Top.filename,
                   returned |-> retval, included_content |-> included_content]}
    /\ UNCHANGED <<files, pc, retval, combined_content, diag, calls, lookups,
                   outs, runs>>

\* line 177
Return ==
    /\ Running /\ Top.st = "loop" /\ Top.todo = <<>>
    /\ calls' = calls \cup {CallRecord(Top, "done", Top.result_content)}
    /\ ReturnValue(Top.result_content)
    /\ UNCHANGED <<files, diag, lookups, splices, runs>>

\* lines 183-188: the caller writes the merged text
WriteCombined ==
    /\ pc = "returned"
    /\ files' = [p \in DOMAIN files \cup {combined_path} |->
                    IF p = combined_path
                    THEN [readable |-> TRUE, text |-> combined_content]
                    ELSE files[p]]
    /\ diag' = Append(diag, [msg |-> "created", name |-> <<>>, at |-> combined_path])
    /\ pc' = "done"
    /\ UNCHANGED <<stack, retval, combined_content, calls, lookups, splices,
                   outs, runs>>

\* lines 184 and 190-192: the combined file cannot be opened for writing
WriteFails ==
    /\ pc = "returned"
    /\ diag' = Append(diag, [msg |-> "error-creating", name |-> <<>>,
                             at |-> combined_path])
    /\ pc' = "done"
    /\ UNCHANGED <<files, stack, retval, combined_content, calls, lookups,
                   splices, outs, runs>>

Next ==
    \/ Start
    \/ CycleGuard
    \/ ReadFail
    \/ ReadFragment
    \/ IncludeFound
    \/ IncludeMissing
    \/ IncludeMissingListingFails
    \/ SpliceIncluded
    \/ Return
    \/ WriteCombined
    \/ WriteFails

Spec == Init /\ [][Next]_vars

\* the interpreter runs the program to its end
FairSpec == Spec /\ WF_vars(Next)

(***************************************************************************)
(* Vocabulary of the properties                                            *)
(***************************************************************************)
\* the fragments the directives of fragment p name and that exist
Targets(fs, p) ==
    IF ~fs[p].readable THEN {}
    ELSE {LookupRecord(fs, p, fs[p].text[i].b).included_path :
            i \in {j \in 1..Len(fs[p].text) :
                     /\ fs[p].text[j].k = "dir"
                     /\ LookupRecord(fs, p, fs[p].text[j].b).found}}

\* some directive of fragment p names a file that does not exist
HasMissingTarget(fs, p) ==
    /\ fs[p].readable
    /\ \E i \in 1..Len(fs[p].text) :
          /\ fs[p].text[i].k = "dir"
          /\ ~LookupRecord(fs, p, fs[p].text[i].b).found

RECURSIVE ReachFrom(_, _, _)
ReachFrom(fs, seen, frontier) ==
    IF frontier = {} THEN seen
    ELSE LET new == UNION {Targets(fs, p) : p \in frontier} \ seen
         IN  ReachFrom(fs, seen \cup new, new)

\* the fragments reached from p by one inclusion or more
Below(fs, p) == ReachFrom(fs, Targets(fs, p), Targets(fs, p))

Reachable(fs) == {main_path} \cup Below(fs, main_path)

Acyclic(fs) == \A p \in Reachable(fs) : p \notin Below(fs, p)

HasCycle(fs) == ~Acyclic(fs)

AllReadable(fs) ==
    \A p \in Reachable(fs) : fs[p].readable /\ ~HasMissingTarget(fs, p)

RECURSIVE Count(_, _)
Count(s, t) ==
    IF s = <<>> THEN 0
    ELSE (IF Head(s) = t THEN 1 ELSE 0) + Count(Tail(s), t)

\* the ordinary text of a fragment outside its structural lines
ContentTokens(text) ==
    {text[i] : i \in {j \in 1..Len(text) :
                        text[j].k = "txt" /\ text[j].a # "options"}}

BaseName(name) == LET c == SplitName(name, <<>>) IN c[Len(c)]

\* token t stands between a begin marker and an end marker that carry name
Enclosed(s, t, name) ==
    \E i, j, k \in 1..Len(s) :
        /\ i < j /\ j < k
        /\ s[j] = t
        /\ s[i].k = "begin-include" /\ BaseName(s[i].b) = name
        /\ s[k] = EndInclude(s[i].b)

\* every end marker closes the begin marker opened last, and none stays open
RECURSIVE Nested(_, _)
Nested(s, open) ==
    IF s = <<>> THEN open = <<>>
    ELSE IF Head(s).k = "begin-include"
         THEN Nested(Tail(s), Append(open, Head(s).b))
    ELSE IF Head(s).k = "end-include"
         THEN /\ open # <<>>
              /\ open[Len(open)] = Head(s).b
              /\ Nested(Tail(s), SubSeq(open, 1, Len(open) - 1))
    ELSE Nested(Tail(s), open)

StructuralLines == {"documentclass", "begin{document}", "end{document}"}

HasStructuralLine(s) ==
    \E i \in 1..Len(s) : s[i].k = "cmd" /\ s[i].a \in StructuralLines

ThisRun == outs[Len(outs)]

(***************************************************************************)
(* C1: for an acyclic inclusion graph of existing, readable fragments the  *)
(* resolver returns, the markers of the merged output are balanced and     *)
(* properly nested, and the ordinary text of every fragment reachable from *)
(* the root stands exactly once in the merged output, for an included      *)
(* fragment between a begin and an end marker that carry its file name.    *)
(***************************************************************************)
C1_EachFragmentOnceAndWrapped ==
    (pc = "returned" /\ Acyclic(ThisRun.fs) /\ AllReadable(ThisRun.fs)) =>
        /\ Nested(combined_content, <<>>)
        /\ \A p \in Reachable(ThisRun.fs) :
              \A t \in ContentTokens(ThisRun.fs[p].text) :
                  /\ Count(combined_content, t) = 1
                  /\ p # main_path =>
                        Enclosed(combined_content, t, p[Len(p)])

(***************************************************************************)
(* C3: what a call returns is the text of its fragment with every          *)
(* directive whose target exists replaced by that directive's expansion,   *)
(* and everything else unchanged and in order.                             *)
(***************************************************************************)
C3_SplicedInPlace ==
    \A c \in calls : c.how = "done" => c.ret = c.intended

(***************************************************************************)
(* C4: no document-class, document-begin or document-end line of an        *)
(* included fragment is left in what is spliced for it, and those lines of *)
(* the root fragment stay in the merged output.                            *)
(***************************************************************************)
C4_StructureStripped ==
    /\ \A x \in splices :
          x.target # main_path => ~HasStructuralLine(x.included_content)
    /\ (pc = "returned" /\ ThisRun.fs[main_path].readable) =>
          \A c \in StructuralLines :
              Count(combined_content, Cmd(c)) >= Count(ThisRun.fs[main_path].text, Cmd(c))

(***************************************************************************)
(* Path resolution on its own: a directive with any argument of at most    *)
(* MaxArgLen name tokens, in the root fragment or in a fragment of the     *)
(* subdirectory, is looked up in a filesystem (lines 115-138).             *)
(***************************************************************************)
MaxArgLen == 3

NameTokens == {"b", " ", "/", "\\", ".tex"}

RECURSIVE SeqsUpTo(_, _)
SeqsUpTo(S, n) ==
    IF n = 0 THEN {<<>>}
    ELSE LET shorter == SeqsUpTo(S, n - 1)
         IN  shorter \cup {Append(q, x) : q \in shorter, x \in S}

\* [^}]+ matches one character or more
Arguments == SeqsUpTo(NameTokens, MaxArgLen) \ {<<>>}

path_blank_b == JoinPath(folder_path, <<"b", " ", ".tex">>)
path_root_b == << <<"b", ".tex">> >>

LookupFileSystems ==
    { [p \in {main_path, path_s} \cup extra |-> File(<<Txt("x"), NL>>)] :
        extra \in SUBSET {path_b, path_sb, path_blank_b, path_root_b} }

LookupInit ==
    /\ files \in LookupFileSystems
    /\ pc = "lookup"
    /\ stack = <<>>
    /\ retval = <<>>
    /\ combined_content = <<>>
    /\ diag = <<>>
    /\ calls = {}
    /\ lookups = {}
    /\ splices = {}
    /\ outs = <<>>
    /\ runs = 0

LookupDirective(owner, arg) ==
    /\ pc = "lookup"
    /\ lookups = {}
    /\ lookups' = {LookupRecord(files, owner, arg)}
    /\ UNCHANGED <<files, pc, stack, retval, combined_content, diag, calls,
                   splices, outs, runs>>

LookupNext ==
    \E owner \in {main_path, path_s}, arg \in Arguments :
        LookupDirective(owner, arg)

LookupSpec == LookupInit /\ [][LookupNext]_vars

(***************************************************************************)
(* C2: the resolver comes to an end whatever cycles the inclusion graph    *)
(* has; a call on a path that is in the visited set handed to it opens no  *)
(* file and returns the empty text, and the calls in progress never        *)
(* outnumber the files by more than one.                                   *)
(***************************************************************************)
C2_CycleTerminates ==
    /\ [](\A c \in calls : c.path \in c.given => ~c.opened /\ c.ret = <<>>)
    /\ [](Len(stack) <= Cardinality(DOMAIN files) + 1 /\ Len(stack) < MaxDepth)
    /\ ((pc = "resolving") ~> (pc \in {"returned", "failed"}))

C2_Witness ==
    /\ pc = "returned"
    /\ HasCycle(ThisRun.fs)
    /\ \E c \in calls : c.path \in c.given /\ c.depth >= 4 /\ c.path # main_path

(***************************************************************************)
(* C5: a file name with a path separator is looked up from the base folder *)
(* only (an absolute name at itself), whatever the fragment; a file name   *)
(* without one is looked up in the directory of the fragment that holds    *)
(* the directive if it exists there, and in the base folder only if it     *)
(* does not.                                                               *)
(***************************************************************************)
NonEmptyComponents(name) ==
    SelectSeq(SplitName(name, <<>>), LAMBDA c : c # <<>>)

C6_MissingKeptLiteral ==
    /\ pc # "failed"
    /\ pc = "returned" =>
        \A c \in calls :
            (c.run = runs /\ c.how = "done") =>
                \A i \in 1..Len(c.content) :
                    (/\ c.content[i].k = "dir"
                     /\ ~LookupRecord(ThisRun.fs, c.path, c.content[i].b).found)
                    => /\ Count(c.ret, c.content[i]) >= Count(c.content, c.content[i])
                       /\ \E n \in 1..Len(diag) :
                             /\ diag[n].msg = "not-found"
                             /\ diag[n].name = TargetFilename(c.content[i].b)

(***************************************************************************)
(* C7: a failure to read a fragment ends the call on that fragment alone:  *)
(* it returns the empty text to its caller, whose frame and whose callers' *)
(* frames stay as they are; the empty text is what is spliced for the      *)
(* fragment, the including call goes on to visit every directive of its    *)
(* fragment; if the root cannot be read the result is the empty text and a *)
(* diagnostic names the root.                                              *)
(***************************************************************************)
CannotRead(p) == IsFile(files, p) /\ ~files[p].readable

ReadFailsNow ==
    /\ pc = "resolving" /\ stack # <<>>
    /\ Top.st = "entry"
    /\ Top.tex_file_path \notin Top.processed_files
    /\ CannotRead(Top.tex_file_path)

C8_Deterministic ==
    \A i, j \in 1..Len(outs) :
        (outs[i].fin /\ outs[j].fin /\ outs[i].fs = outs[j].fs)
            => outs[i].out = outs[j].out

C8_Witness ==
    /\ Len(outs) >= 2
    /\ outs[1].fin /\ outs[2].fin
    /\ outs[1].fs = outs[2].fs
    /\ outs[2].out # <<>>
    /\ HasCycle(outs[2].fs)

(***************************************************************************)
(* C9 as stated: an argument without the .tex suffix and the same argument *)
(* with the suffix appended are looked up at the same path.                *)
(***************************************************************************)
C9_SuffixIrrelevant ==
    \A l \in lookups :
        ~EndsWithTex(l.arg) =>
            LookupRecord(files, l.owner, AppendTex(l.arg)).included_path
                = l.included_path

(***************************************************************************)
(* C9 amended: an argument that has no .tex suffix and does not end in a   *)
(* blank, and the same argument with the suffix appended, are looked up at *)
(* the same path.                                                          *)
(***************************************************************************)
C9_SuffixIrrelevantNoTrailingBlank ==
    \A l \in lookups :
        (~EndsWithTex(l.arg) /\ ~IsSpace(l.arg[Len(l.arg)])) =>
            LookupRecord(files, l.owner, AppendTex(l.arg)).included_path
                = l.included_path

C9_Witness ==
    /\ path_sb \in DOMAIN files
    /\ \E l \in lookups :
          /\ l.owner = path_s /\ l.arg = <<" ", "b">>
          /\ l.found /\ l.included_path = path_sb

(***************************************************************************)
(* C10: no step of the resolver changes the filesystem; the only change is *)
(* the caller's, after the resolver has returned, and it touches the       *)
(* combined file alone.                                                    *)
(***************************************************************************)
C10_ResolverWritesNothing ==
    [][/\ pc = "resolving" => files' = files
       /\ files' # files =>
             /\ pc = "returned" /\ pc' = "done"
             /\ \A p \in DOMAIN files \ {combined_path} :
                   p \in DOMAIN files' /\ files'[p] = files[p]]_vars

C10_Witness ==
    /\ pc = "returned"
    /\ files = ThisRun.fs
    /\ \E n \in 1..Len(diag) : diag[n].msg = "could-not-read"
    /\ \E n \in 1..Len(diag) : diag[n].msg = "not-found"
    /\ combined_content # <<>>

(***************************************************************************)
(* C11: the visited set handed to a call holds exactly the paths of the    *)
(* calls in progress above it, the root call is handed the empty set, and  *)
(* a call adds nothing but its own path to its set; so a call is cut short *)
(* as a cycle exactly when its path is the path of a call in progress, and *)
(* every other call that can read its fragment works on the whole text of  *)
(* the fragment, however often the fragment was expanded elsewhere.        *)
(***************************************************************************)
C11_VisitedSetAncestorsOnly ==
    /\ \A k \in 1..Len(stack) :
          /\ stack[k].given = {stack[j].tex_file_path : j \in 1..(k - 1)}
          /\ stack[k].processed_files \in
                 {stack[k].given, stack[k].given \cup {stack[k].tex_file_path}}
    /\ \A c \in calls :
          /\ c.how = "cycle" <=> c.path \in c.given
          /\ c.how = "done" => c.content = outs[c.run].fs[c.path].text
          /\ (c.path \notin c.given /\ outs[c.run].fs[c.path].readable)
                => c.how = "done"

\* a diamond: one fragment was expanded in full in two calls of the same run
\* whose visited sets each hold a fragment the other does not
C11_Witness ==
    /\ pc = "returned"
    /\ \E c, d \in calls :
          /\ c.run = runs /\ d.run = runs
          /\ c.path = d.path /\ c.path # main_path
          /\ c.given \ d.given # {} /\ d.given \ c.given # {}
          /\ c.how = "done" /\ d.how = "done"
          /\ c.ret # <<>> /\ c.ret = d.ret
    /\ \E x, y \in splices :
          /\ x.target = y.target /\ x.owner # y.owner
          /\ main_path \notin {x.owner, y.owner}
          /\ x.included_content # <<>> /\ y.included_content # <<>>

(***************************************************************************)
(* C12: when the call on the target of a directive has returned, the       *)
(* directive is replaced in the text of the including fragment: for the    *)
(* root file as target by what the call returned, as it is; for any other  *)
(* target by nothing if the returned text without its structural lines is  *)
(* blank, and else by that text, trimmed, between a begin marker and an    *)
(* end marker that both carry the file name of the target.                 *)
(***************************************************************************)
C12_Replacement ==
    LET cleaned == StripText(StripStructure(retval))
        marked == <<NL, BeginInclude(Top.filename), NL>> \o cleaned
                      \o <<NL, EndInclude(Top.filename), NL>>
        replacement == IF Top.included_path = main_path THEN retval
                       ELSE IF cleaned = <<>> THEN <<>> ELSE marked
        directive == Top.content[Head(Top.todo)]
    IN  /\ BaseName(Top.filename) = Top.included_path[Len(Top.included_path)]
        /\ \E at \in 1..Len(Top.result_content) :
              /\ Top.result_content[at] = directive
              /\ stack'[Len(stack)].result_content =
                     SubSeq(Top.result_content, 1, at - 1) \o replacement
                         \o SubSeq(Top.result_content, at + 1,
                                   Len(Top.result_content))

C12_WrappedOrEmpty ==
    [][(pc = "resolving" /\ stack # <<>> /\ Top.st = "wait") => C12_Replacement]_vars

(***************************************************************************)
(* The kind of one directive is changed between two runs: after the first  *)
(* run one directive of one readable fragment is rewritten with another of *)
(* the four commands (lines 101-106), its argument and everything else     *)
(* left as it is, and the resolver is run again.                           *)
(***************************************************************************)
Unedited == \A p \in DOMAIN outs[1].fs : files[p] = outs[1].fs[p]

ChangeKind(p, i, kind) ==
    /\ pc \in {"done", "failed"}
    /\ runs = 1
    /\ Unedited
    /\ files[p].readable
    /\ files[p].text[i].k = "dir"
    /\ files[p].text[i].a # kind
    /\ files' = [files EXCEPT ![p].text[i] = Dir(kind, @.b)]
    /\ UNCHANGED <<pc, stack, retval, combined_content, diag, calls, lookups,
                   splices, outs, runs>>

KindNext ==
    \/ Next
    \/ \E p \in DOMAIN files \ {combined_path} :
          \E i \in 1..Len(files[p].text), n \in 1..Len(patterns) :
              ChangeKind(p, i, patterns[n])

KindSpec == Init /\ [][KindNext]_vars

\* a text with every directive written as \input
EraseKinds(text) ==
    [i \in 1..Len(text) |->
        IF text[i].k = "dir" THEN Dir("input", text[i].b) ELSE text[i]]

\* two filesystems that differ in the kinds of directives at most
SameButKinds(fs, gs) ==
    /\ DOMAIN fs = DOMAIN gs
    /\ \A p \in DOMAIN fs :
          /\ fs[p].readable = gs[p].readable
          /\ EraseKinds(fs[p].text) = EraseKinds(gs[p].text)

(***************************************************************************)
(* C13: the kind of a directive makes no difference: two calls on the same *)
(* fragment with the same visited set, in runs whose filesystems differ in *)
(* the kind of a directive only, return the same text up to the kinds of   *)
(* the directives left in it, so that each directive has the same          *)
(* expansion at its place in both.                                         *)
(***************************************************************************)
C13_KindIrrelevant ==
    \A c, d \in calls :
        (/\ c.run # d.run
         /\ c.path = d.path /\ c.given = d.given
         /\ c.how = "done" /\ d.how = "done"
         /\ SameButKinds(outs[c.run].fs, outs[d.run].fs))
        => EraseKinds(c.ret) = EraseKinds(d.ret)

(***************************************************************************)
(* C14: a call looks up the directives of the text of its own fragment and *)
(* no others, each once; a directive that a call below left as it was      *)
(* stands, as often as it was returned, in what is spliced for the         *)
(* fragment it came with and in what every call above returns, and no call *)
(* above looks it up.                                                      *)
(***************************************************************************)
Directives(text) == {text[i] : i \in {j \in 1..Len(text) : text[j].k = "dir"}}

C14_OwnDirectivesOnly ==
    /\ \A l \in lookups :
          \E t \in Directives(files[l.owner].text) : t.b = l.arg
    /\ \A c \in calls :
          c.how = "done" =>
             /\ c.handled = WorkList(c.content)
             /\ \A t \in Directives(c.intended) \ Directives(c.content) :
                   Count(c.ret, t) = Count(c.intended, t)
    /\ \A x \in splices :
          \A t \in Directives(x.returned) :
              Count(x.included_content, t) = Count(x.returned, t)

====
